---- MODULE Spec2Model ----
(***************************************************************************)
(* Model of main.py: a FastAPI service with two GET routes.                *)
(*   /generate-presigned-url  asks the S3 client for a presigned PUT URL   *)
(*   /health                  returns a static status                      *)
(* The configuration is read from the process environment when the module  *)
(* is imported.  The S3 client (boto3) and the HTTP framework are external:*)
(* the client's answer to a signing call is any URL or any exception, the  *)
(* framework rejects a request that lacks a required query parameter.      *)
(***************************************************************************)
EXTENDS Integers, Sequences, FiniteSets, TLC

\* ------------------------------------------------------------------ bounds

\* Number of HTTP requests that may be in flight together.
MaxRequests == 2

Requests == 1..MaxRequests

\* ------------------------------------------------------- python primitives

\* Python's None, as returned by os.getenv for an unset variable.
None == "<None>"

\* Mutant of Falsy: `if S3_BUCKET is None`, which lets an empty name pass.
FalsyNoneOnly(v) == v = None

\* Truth value of `not v` for v a str or None.
Falsy(v) == v = None \/ v = ""

\* Text is a sequence of one-character strings where the code parses it.
DigitChars == <<"0", "1", "2", "3", "4", "5", "6", "7", "8", "9">>

IsDigit(c) == \E i \in 1..Len(DigitChars) : DigitChars[i] = c

DigitVal(c) == (CHOOSE i \in 1..Len(DigitChars) : DigitChars[i] = c) - 1

IsSpace(c) == c = " "

RECURSIVE LStrip(_)
LStrip(s) == IF s # <<>> /\ IsSpace(Head(s)) THEN LStrip(Tail(s)) ELSE s

RECURSIVE RStrip(_)
RStrip(s) ==
    IF s # <<>> /\ IsSpace(s[Len(s)]) THEN RStrip(SubSeq(s, 1, Len(s) - 1)) ELSE s

Strip(s) == LStrip(RStrip(s))

AllDigits(s) == s # <<>> /\ \A i \in 1..Len(s) : IsDigit(s[i])

RECURSIVE DigitsValue(_)
DigitsValue(s) ==
    IF s = <<>> THEN 0
    ELSE 10 * DigitsValue(SubSeq(s, 1, Len(s) - 1)) + DigitVal(s[Len(s)])

HasSign(s) == s # <<>> /\ Head(s) \in {"+", "-"}

Unsigned(s) == IF HasSign(s) THEN Tail(s) ELSE s

\* int(text) succeeds: optional blanks, an optional sign, at least one digit
\* (the texts of the model hold no underscore and no non-ASCII digit).
IntParses(text) == AllDigits(Unsigned(Strip(text)))

\* int(text) where it succeeds.
IntOf(text) ==
    LET s == Strip(text)
    IN  IF HasSign(s) /\ Head(s) = "-" THEN 0 - DigitsValue(Tail(s))
        ELSE DigitsValue(Unsigned(s))

\* ------------------------------------------------------------- environment

EnvNames == {"S3_BUCKET_NAME", "AWS_REGION", "PRESIGNED_URL_EXPIRATION"}

BucketTexts == {"", "uploads"}

RegionTexts == {"us-east-1"}

ExpirationTexts ==
    { <<"6", "0">>, <<"0">>, <<"-", "5">>, <<" ", "7", " ">>, <<"a", "b", "c">> }

EnvOf(D, b, g, x) ==
    [n \in D |-> CASE n = "S3_BUCKET_NAME" -> b
                   [] n = "AWS_REGION" -> g
                   [] n = "PRESIGNED_URL_EXPIRATION" -> x]

\* Every process environment of the model: each variable set or unset.
Environs ==
    { EnvOf(D, b, g, x) : D \in SUBSET EnvNames, b \in BucketTexts,
                          g \in RegionTexts, x \in ExpirationTexts }

\* os.getenv(name, default)
getenv(env, name, default) == IF name \in DOMAIN env THEN env[name] ELSE default

\* The default of os.getenv("PRESIGNED_URL_EXPIRATION", 3600).
DefaultExpiration == 3600

\* int(os.getenv("PRESIGNED_URL_EXPIRATION", 3600)) raises ValueError.
ExpirationRaises(env) ==
    "PRESIGNED_URL_EXPIRATION" \in DOMAIN env
        /\ ~IntParses(env["PRESIGNED_URL_EXPIRATION"])

\* int(os.getenv("PRESIGNED_URL_EXPIRATION", 3600)) where it does not raise.
ExpirationOf(env) ==
    IF "PRESIGNED_URL_EXPIRATION" \in DOMAIN env
    THEN IntOf(env["PRESIGNED_URL_EXPIRATION"])
    ELSE DefaultExpiration

\* A module-level name the import never bound.
NotBound == "<NameError>"

\* -------------------------------------------------------------- the routes

GenerateRoute == "/generate-presigned-url"

HealthRoute == "/health"

Routes == {GenerateRoute, HealthRoute}

\* The query string carries no file_name parameter.
Missing == "<missing>"

\* Values of the file_name parameter a client sends (the empty one included).
FileNames == {"", "a.txt", "dir/b.png"}

\* ------------------------------------------------------------ the S3 client

Signatures == {"sig1", "sig2"}

ClientErrorTexts == {"AccessDenied", "InvalidAccessKeyId"}

OtherErrors ==
    { [type |-> "ParamValidationError", text |-> "Parameter validation failed"] }

\* What ExpiresIn, Params and HttpMethod of a signing call put into the URL.
SignedUrl(call, sig) ==
    [method |-> call.HttpMethod, region |-> call.region, bucket |-> call.Bucket,
     key |-> call.Key, expires |-> call.ExpiresIn, signature |-> sig]

\* Every way s3_client.generate_presigned_url may end for a call: the library
\* is outside the repository, so each end is possible for every argument.
SignerOutcomes(call) ==
    { [kind |-> "return", value |-> SignedUrl(call, sig)] : sig \in Signatures }
        \cup { [kind |-> "raise", value |-> [type |-> "ClientError", text |-> t]]
                 : t \in ClientErrorTexts }
        \cup { [kind |-> "raise", value |-> e] : e \in OtherErrors }

\* isinstance(e, ClientError)
IsClientError(e) == e.type = "ClientError"

\* str(e)
Str(e) == e.text

\* ------------------------------------------------------------------- state

VARIABLES
    environ,                    \* the process environment
    started,                    \* the module was imported without an exception
    S3_BUCKET,                  \* module globals set at import
    AWS_REGION,
    PRESIGNED_URL_EXPIRATION,
    pc,                         \* per request: position of its handling
    route,                      \* per request: the path requested
    file_name,                  \* per request: the file_name parameter or Missing
    calls,                      \* per request: signing calls made, in order
    outcomes,                   \* per request: how each signing call ended
    responses                   \* per request: responses sent, in order

config == <<environ, started, S3_BUCKET, AWS_REGION, PRESIGNED_URL_EXPIRATION>>

vars == <<environ, started, S3_BUCKET, AWS_REGION, PRESIGNED_URL_EXPIRATION,
          pc, route, file_name, calls, outcomes, responses>>

\* --------------------------------------------------------------- responses

HTTP_200 == 200

HTTP_422 == 422

HTTP_500 == 500

\* A body `detail` is text in fragments, in the order an f-string joins them.
Contains(detail, text) == \E i \in 1..Len(detail) : detail[i] = text

\* The framework's answer to a request without the required file_name.
ValidationErrorResponse ==
    [status |-> HTTP_422, body |-> [detail |-> <<"Field required">>]]

\* Mutant of BucketNotConfiguredResponse: the configuration error as 503.
BucketNotConfigured503 ==
    [status |-> 503,
     body |-> [detail |-> <<"Error interno del servidor: Bucket S3 no configurado.">>]]

\* raise HTTPException(500, "... Bucket S3 no configurado.")
BucketNotConfiguredResponse ==
    [status |-> HTTP_500,
     body |-> [detail |-> <<"Error interno del servidor: Bucket S3 no configurado.">>]]

\* Mutant of ObjectName: the key stripped of its directory part.
ObjectNameBasename(fn) == IF fn = "dir/b.png" THEN "b.png" ELSE fn

\* object_name = file_name
ObjectName(fn) == fn

\* Mutant of SigningCall: the default expiration instead of the configured one.
SigningCallDefaultExpiry(object_name) ==
    [ClientMethod |-> "put_object", Bucket |-> S3_BUCKET, Key |-> object_name,
     ExpiresIn |-> DefaultExpiration, HttpMethod |-> "PUT",
     region |-> AWS_REGION]

\* The arguments of s3_client.generate_presigned_url, with the client's region.
SigningCall(object_name) ==
    [ClientMethod |-> "put_object", Bucket |-> S3_BUCKET, Key |-> object_name,
     ExpiresIn |-> PRESIGNED_URL_EXPIRATION, HttpMethod |-> "PUT",
     region |-> AWS_REGION]

\* return {"presigned_url": response, "object_key": object_name}
SuccessResponse(url, object_name) ==
    [status |-> HTTP_200,
     body |-> [presigned_url |-> url, object_key |-> object_name]]

\* Mutant of ClientErrorResponse: the detail without the error's text.
ClientErrorResponseGeneric(e) ==
    [status |-> HTTP_500,
     body |-> [detail |-> <<"No se pudo generar la URL firmada: ">>]]

\* raise HTTPException(500, f"No se pudo generar la URL firmada: {e}")
ClientErrorResponse(e) ==
    [status |-> HTTP_500,
     body |-> [detail |-> <<"No se pudo generar la URL firmada: ", Str(e)>>]]

\* Mutant of UnexpectedErrorResponse: the detail with the error's text.
UnexpectedErrorResponseWithText(e) ==
    [status |-> HTTP_500, body |-> [detail |-> <<"Error interno inesperado: ", Str(e)>>]]

\* raise HTTPException(500, "Error interno inesperado.")
UnexpectedErrorResponse(e) ==
    [status |-> HTTP_500, body |-> [detail |-> <<"Error interno inesperado.">>]]

\* Mutant of HealthResponse: health reports the missing bucket.
HealthResponseNeedsBucket ==
    IF Falsy(S3_BUCKET)
    THEN [status |-> HTTP_500, body |-> [status |-> "error"]]
    ELSE [status |-> HTTP_200, body |-> [status |-> "ok"]]

\* return {"status": "ok"}
HealthResponse == [status |-> HTTP_200, body |-> [status |-> "ok"]]

\* ------------------------------------------------------------------ import

\* The state once main.py has been imported under environment env.
Init ==
    /\ environ \in Environs
    /\ S3_BUCKET = getenv(environ, "S3_BUCKET_NAME", None)
    /\ AWS_REGION = getenv(environ, "AWS_REGION", None)
    /\ started = ~ExpirationRaises(environ)
    /\ PRESIGNED_URL_EXPIRATION =
           IF ExpirationRaises(environ) THEN NotBound ELSE ExpirationOf(environ)
    /\ pc = [r \in Requests |-> "idle"]
    /\ route = [r \in Requests |-> HealthRoute]
    /\ file_name = [r \in Requests |-> Missing]
    /\ calls = [r \in Requests |-> <<>>]
    /\ outcomes = [r \in Requests |-> <<>>]
    /\ responses = [r \in Requests |-> <<>>]

\* ----------------------------------------------------------------- actions

Respond(r, resp) ==
    /\ responses' = [responses EXCEPT ![r] = Append(@, resp)]
    /\ pc' = [pc EXCEPT ![r] = "done"]

\* A client sends GET rt, with or without a file_name parameter (health_check
\* takes no parameter, so a health request is sent without one).
Request(r) ==
    /\ started
    /\ pc[r] = "idle"
    /\ \E rt \in Routes, fn \in FileNames \cup {Missing} :
          /\ rt = HealthRoute => fn = Missing
          /\ route' = [route EXCEPT ![r] = rt]
          /\ file_name' = [file_name EXCEPT ![r] = fn]
    /\ pc' = [pc EXCEPT ![r] = "pending"]
    /\ UNCHANGED <<config, calls, outcomes, responses>>

\* file_name: str = Query(...): the parameter is required.
RejectMissingParameter(r) ==
    /\ pc[r] = "pending"
    /\ route[r] = GenerateRoute
    /\ file_name[r] = Missing
    /\ Respond(r, ValidationErrorResponse)
    /\ UNCHANGED <<config, route, file_name, calls, outcomes>>

\* if not S3_BUCKET: raise HTTPException(500, ...)
generate_presigned_url_no_bucket(r) ==
    /\ pc[r] = "pending"
    /\ route[r] = GenerateRoute
    /\ file_name[r] # Missing
    /\ Falsy(S3_BUCKET)
    /\ Respond(r, BucketNotConfiguredResponse)
    /\ UNCHANGED <<config, route, file_name, calls, outcomes>>

\* The handler enters the try block and calls the S3 client.
generate_presigned_url_call(r) ==
    /\ pc[r] = "pending"
    /\ route[r] = GenerateRoute
    /\ file_name[r] # Missing
    /\ ~Falsy(S3_BUCKET)
    /\ calls' = [calls EXCEPT ![r] = Append(@, SigningCall(ObjectName(file_name[r])))]
    /\ pc' = [pc EXCEPT ![r] = "signing"]
    /\ UNCHANGED <<config, route, file_name, outcomes, responses>>

\* s3_client.generate_presigned_url returns a URL or raises.
s3_generate_presigned_url(r) ==
    /\ pc[r] = "signing"
    /\ \E o \in SignerOutcomes(calls[r][Len(calls[r])]) :
          outcomes' = [outcomes EXCEPT ![r] = Append(@, o)]
    /\ pc' = [pc EXCEPT ![r] = "signed"]
    /\ UNCHANGED <<config, route, file_name, calls, responses>>

LastOutcome(r) == outcomes[r][Len(outcomes[r])]

\* Mutant of generate_presigned_url_return: the URL is the one first signed
\* for any request, kept in a module-level cache.
generate_presigned_url_return_cached(r) ==
    /\ pc[r] = "signed"
    /\ LastOutcome(r).kind = "return"
    /\ LET first == CHOOSE s \in Requests :
                        /\ outcomes[s] # <<>> /\ outcomes[s][1].kind = "return"
                        /\ \A t \in 1..(s - 1) :
                              outcomes[t] = <<>> \/ outcomes[t][1].kind # "return"
       IN  Respond(r, SuccessResponse(outcomes[first][1].value,
                                      ObjectName(file_name[r])))
    /\ UNCHANGED <<config, route, file_name, calls, outcomes>>

\* The call returned: the handler returns the URL and the key.
generate_presigned_url_return(r) ==
    /\ pc[r] = "signed"
    /\ LastOutcome(r).kind = "return"
    /\ Respond(r, SuccessResponse(LastOutcome(r).value, ObjectName(file_name[r])))
    /\ UNCHANGED <<config, route, file_name, calls, outcomes>>

\* Mutant of generate_presigned_url_except_ClientError: one retry of the call.
generate_presigned_url_except_ClientError_retry(r) ==
    /\ pc[r] = "signed"
    /\ LastOutcome(r).kind = "raise"
    /\ IsClientError(LastOutcome(r).value)
    /\ IF Len(calls[r]) < 2
       THEN /\ calls' = [calls EXCEPT
                           ![r] = Append(@, SigningCall(ObjectName(file_name[r])))]
            /\ pc' = [pc EXCEPT ![r] = "signing"]
            /\ UNCHANGED <<config, route, file_name, outcomes, responses>>
       ELSE /\ Respond(r, ClientErrorResponse(LastOutcome(r).value))
            /\ UNCHANGED <<config, route, file_name, calls, outcomes>>

\* except ClientError as e
generate_presigned_url_except_ClientError(r) ==
    /\ pc[r] = "signed"
    /\ LastOutcome(r).kind = "raise"
    /\ IsClientError(LastOutcome(r).value)
    /\ Respond(r, ClientErrorResponse(LastOutcome(r).value))
    /\ UNCHANGED <<config, route, file_name, calls, outcomes>>

\* except Exception as e
generate_presigned_url_except_Exception(r) ==
    /\ pc[r] = "signed"
    /\ LastOutcome(r).kind = "raise"
    /\ ~IsClientError(LastOutcome(r).value)
    /\ Respond(r, UnexpectedErrorResponse(LastOutcome(r).value))
    /\ UNCHANGED <<config, route, file_name, calls, outcomes>>

\* async def health_check(): return {"status": "ok"}
health_check(r) ==
    /\ pc[r] = "pending"
    /\ route[r] = HealthRoute
    /\ Respond(r, HealthResponse)
    /\ UNCHANGED <<config, route, file_name, calls, outcomes>>

\* One step of the handling of request r.
Step(r) ==
    \/ RejectMissingParameter(r)
    \/ generate_presigned_url_no_bucket(r)
    \/ generate_presigned_url_call(r)
    \/ s3_generate_presigned_url(r)
    \/ generate_presigned_url_return(r)
    \/ generate_presigned_url_except_ClientError(r)
    \/ generate_presigned_url_except_Exception(r)
    \/ health_check(r)

Next == \E r \in Requests : Request(r) \/ Step(r)

Spec == Init /\ [][Next]_vars

\* ------------------------------------------------------- claim vocabulary

Done(r) == pc[r] = "done"

\* The request reached the handler of /generate-presigned-url.
Generates(r) == pc[r] # "idle" /\ route[r] = GenerateRoute

CarriesFileName(r) == Generates(r) /\ file_name[r] # Missing

\* S3_BUCKET_NAME is unset or empty in the environment of the process.
BucketAbsent ==
    "S3_BUCKET_NAME" \notin DOMAIN environ \/ environ["S3_BUCKET_NAME"] = ""

\* The one signing call of request r ended by returning a URL.
SignerReturned(r) == outcomes[r] # <<>> /\ outcomes[r][1].kind = "return"

\* The one signing call of request r ended by raising an exception.
SignerRaised(r) == outcomes[r] # <<>> /\ outcomes[r][1].kind = "raise"

SignerRaisedClientError(r) ==
    SignerRaised(r) /\ outcomes[r][1].value.type = "ClientError"

SignerRaisedOther(r) ==
    SignerRaised(r) /\ outcomes[r][1].value.type # "ClientError"

\* ------------------------------------------------------------------ claims

\* C1: a request carrying a file_name, with the bucket name unset or empty,
\* is answered 500 with the bucket-not-configured message, and the signing
\* routine is never invoked for it.
C1_MissingBucketIs500 ==
    \A r \in Requests :
        (CarriesFileName(r) /\ BucketAbsent) =>
            /\ calls[r] = <<>>
            /\ Done(r) =>
                 /\ Len(responses[r]) = 1
                 /\ responses[r][1].status = 500
                 /\ responses[r][1].body =
                      [detail |->
                         <<"Error interno del servidor: Bucket S3 no configurado.">>]

\* C1 witness: the bucket name is set but empty and a request was answered.
C1_Witness ==
    /\ "S3_BUCKET_NAME" \in DOMAIN environ
    /\ environ["S3_BUCKET_NAME"] = ""
    /\ \E r \in Requests : CarriesFileName(r) /\ Done(r)

\* C2: with the bucket configured and a signing call that returned, the
\* response is 200, its object_key is the request's file_name unchanged and
\* its presigned_url is the value that call returned for this request.
C2_SuccessEchoesKeyAndUrl ==
    \A r \in Requests :
        (Done(r) /\ CarriesFileName(r) /\ SignerReturned(r)) =>
            responses[r] =
                << [status |-> 200,
                    body |-> [presigned_url |-> outcomes[r][1].value,
                              object_key |-> file_name[r]]] >>

\* C2 witness: a request for a key with a directory part got its URL.
C2_Witness ==
    \E r \in Requests :
        Done(r) /\ SignerReturned(r) /\ file_name[r] = "dir/b.png"

\* C3: every signing call is for PUT, with Bucket the configured bucket
\* name, Key the request's file_name and ExpiresIn the expiration read from
\* the environment at import (3600 when unset).
C3_SigningCallArguments ==
    \A r \in Requests : \A i \in 1..Len(calls[r]) :
        /\ calls[r][i].ClientMethod = "put_object"
        /\ calls[r][i].HttpMethod = "PUT"
        /\ "S3_BUCKET_NAME" \in DOMAIN environ
        /\ calls[r][i].Bucket = environ["S3_BUCKET_NAME"]
        /\ calls[r][i].Key = file_name[r]
        /\ calls[r][i].ExpiresIn = ExpirationOf(environ)
        /\ ("PRESIGNED_URL_EXPIRATION" \notin DOMAIN environ
               => calls[r][i].ExpiresIn = 3600)

\* C3 witness: a call was made with the expiration the environment sets to 60.
C3_Witness ==
    \E r \in Requests :
        /\ calls[r] # <<>>
        /\ "PRESIGNED_URL_EXPIRATION" \in DOMAIN environ
        /\ environ["PRESIGNED_URL_EXPIRATION"] = <<"6", "0">>
        /\ calls[r][1].ExpiresIn = 60

\* C4: every signing call forwarded to the storage client has a non-empty
\* object key and a positive expiration.
C4_ForwardedRequestsValid ==
    \A r \in Requests : \A i \in 1..Len(calls[r]) :
        calls[r][i].Key # "" /\ calls[r][i].ExpiresIn > 0

\* C5: when the signing call raised ClientError the response is 500, its
\* detail contains the text of that error, and no presigned_url is returned.
C5_ClientErrorIs500WithText ==
    \A r \in Requests :
        (Done(r) /\ SignerRaisedClientError(r)) =>
            /\ Len(responses[r]) = 1
            /\ responses[r][1].status = 500
            /\ DOMAIN responses[r][1].body = {"detail"}
            /\ Contains(responses[r][1].body.detail, outcomes[r][1].value.text)

\* C5 witness: a request whose signing call raised ClientError was answered.
C5_Witness == \E r \in Requests : Done(r) /\ SignerRaisedClientError(r)

\* C6: when the signing call raised anything else the response is 500 with
\* the fixed generic detail, which does not contain the error's text.
C6_UnexpectedErrorIsGeneric500 ==
    \A r \in Requests :
        (Done(r) /\ SignerRaisedOther(r)) =>
            /\ Len(responses[r]) = 1
            /\ responses[r][1].status = 500
            /\ responses[r][1].body = [detail |-> <<"Error interno inesperado.">>]
            /\ ~Contains(responses[r][1].body.detail, outcomes[r][1].value.text)

\* C6 witness: a request whose signing call raised another error was answered.
C6_Witness == \E r \in Requests : Done(r) /\ SignerRaisedOther(r)

\* C7 as stated: every response of /generate-presigned-url is 200 or 500,
\* also for a request without the file_name parameter.
C7_Only200Or500 ==
    \A r \in Requests :
        (Done(r) /\ Generates(r)) => responses[r][1].status \in {200, 500}

\* C7 amended: a request carrying file_name is answered 200 or 500; a request
\* without it is answered 422 by the framework and the handler does not run.
C7_StatusByParameter ==
    \A r \in Requests :
        (Done(r) /\ Generates(r)) =>
            /\ Len(responses[r]) = 1
            /\ file_name[r] # Missing => responses[r][1].status \in {200, 500}
            /\ file_name[r] = Missing =>
                 responses[r][1].status = 422 /\ calls[r] = <<>>

\* C7 witness: one request without file_name and one with it, both answered,
\* the second by the handler's bucket check.
C7_Witness ==
    \E r, s \in Requests :
        /\ Done(r) /\ Generates(r) /\ file_name[r] = Missing
        /\ Done(s) /\ CarriesFileName(s) /\ BucketAbsent

\* C8: the health route answers status "ok" in every state the service is
\* in, whatever the bucket configuration and the other requests, and never
\* invokes the signing routine.
C8_HealthAlwaysOk ==
    \A r \in Requests :
        (pc[r] # "idle" /\ route[r] = HealthRoute) =>
            /\ calls[r] = <<>>
            /\ outcomes[r] = <<>>
            /\ pc[r] \in {"pending", "done"}
            /\ pc[r] = "pending" => ENABLED health_check(r)
            /\ Done(r) =>
                 responses[r] = << [status |-> 200, body |-> [status |-> "ok"]] >>

\* C8 witness: health answered with the bucket absent, after a signing
\* request had failed with 500.
C8_Witness ==
    \E r, s \in Requests :
        /\ route[r] = HealthRoute /\ Done(r)
        /\ BucketAbsent
        /\ CarriesFileName(s) /\ Done(s) /\ responses[s][1].status = 500

\* What request r is answered, from its own route and file_name, the
\* environment at import and the end of its own signing call.
OwnResponse(r) ==
    IF route[r] = HealthRoute
        THEN [status |-> 200, body |-> [status |-> "ok"]]
    ELSE IF file_name[r] = Missing
        THEN [status |-> 422, body |-> [detail |-> <<"Field required">>]]
    ELSE IF BucketAbsent
        THEN [status |-> 500,
              body |-> [detail |->
                  <<"Error interno del servidor: Bucket S3 no configurado.">>]]
    ELSE IF SignerReturned(r)
        THEN [status |-> 200,
              body |-> [presigned_url |-> outcomes[r][1].value,
                        object_key |-> file_name[r]]]
    ELSE IF SignerRaisedClientError(r)
        THEN [status |-> 500,
              body |-> [detail |-> <<"No se pudo generar la URL firmada: ",
                                     outcomes[r][1].value.text>>]]
    ELSE [status |-> 500, body |-> [detail |-> <<"Error interno inesperado.">>]]

\* The signing calls of request r, from its own file_name and the
\* environment at import.
OwnCalls(r) ==
    IF route[r] = HealthRoute \/ file_name[r] = Missing \/ BucketAbsent
    THEN <<>>
    ELSE << [ClientMethod |-> "put_object",
             Bucket |-> environ["S3_BUCKET_NAME"], Key |-> file_name[r],
             ExpiresIn |-> ExpirationOf(environ), HttpMethod |-> "PUT",
             region |-> getenv(environ, "AWS_REGION", None)] >>

C9_OwnOutcome ==
    \A r \in Requests :
        Done(r) => responses[r] = <<OwnResponse(r)>> /\ calls[r] = OwnCalls(r)

\* A step leaves the configuration alone and touches one request only.
C9_Frame ==
    /\ config' = config
    /\ \A r, s \in Requests :
          (r # s /\ pc'[r] # pc[r]) =>
              /\ pc'[s] = pc[s]
              /\ route'[s] = route[s]
              /\ file_name'[s] = file_name[s]
              /\ calls'[s] = calls[s]
              /\ outcomes'[s] = outcomes[s]
              /\ responses'[s] = responses[s]

\* C9: the configuration read at import is left unchanged by every step of
\* every request, a step of one request changes nothing of another, and
\* under every interleaving the answer and the signing call of a request are
\* those its own file_name, the configuration and its own signer result fix.
C9_Stateless == []C9_OwnOutcome /\ [][C9_Frame]_vars

\* C9 witness: two requests for the same key, answered differently because
\* their own signing calls ended differently.
C9_Witness ==
    \E r, s \in Requests :
        /\ Done(r) /\ Done(s) /\ CarriesFileName(r)
        /\ file_name[r] = file_name[s] /\ route[r] = route[s]
        /\ SignerReturned(r) /\ SignerRaised(s)

\* At most one signing call, one outcome per call and one response per
\* request; a failed call is followed by the 500 answer and by no further
\* call; an open request can always take its next step.
AtMostOnce(r) ==
    /\ Len(calls[r]) <= 1
    /\ Len(outcomes[r]) <= Len(calls[r])
    /\ Len(responses[r]) = IF Done(r) THEN 1 ELSE 0
    /\ (Done(r) /\ SignerRaised(r)) => responses[r][1].status = 500
    /\ (pc[r] = "signed" /\ SignerRaised(r))
           => ~ENABLED generate_presigned_url_call(r)
                /\ ~ENABLED s3_generate_presigned_url(r)
    /\ pc[r] \in {"pending", "signing", "signed"} => ENABLED Step(r)

\* C10 as stated: a request to /generate-presigned-url invokes the signing
\* routine at most once, exactly once when the bucket is configured; a
\* failed call leads directly to the error response, and the request is
\* answered exactly once.
C10_ExactlyOnceWhenConfigured ==
    \A r \in Requests :
        /\ AtMostOnce(r)
        /\ (Done(r) /\ Generates(r) /\ ~BucketAbsent) => Len(calls[r]) = 1

\* C10 amended: as stated, but the signing routine is invoked exactly once
\* only when the bucket is configured and the request carries file_name; a
\* request without file_name, or with the bucket absent, makes no call.
C10_NoRetries ==
    \A r \in Requests :
        /\ AtMostOnce(r)
        /\ (Done(r) /\ CarriesFileName(r) /\ ~BucketAbsent) => Len(calls[r]) = 1
        /\ (Generates(r) /\ (file_name[r] = Missing \/ BucketAbsent))
               => Len(calls[r]) = 0

\* C10 witness: a request whose one signing call failed was answered.
C10_Witness ==
    \E r \in Requests :
        Done(r) /\ SignerRaised(r) /\ Len(calls[r]) = 1 /\ Len(responses[r]) = 1

====
